---- MODULE Spec2Model ----
(***************************************************************************)
(* Authorization middleware of the FastMCP playground server               *)
(* (src/mcp/app/middleware/authorization.py): the claims extractors, the   *)
(* role-based and scope-based verifiers, and the two middleware hooks      *)
(* on_list_tools and on_call_tool.                                         *)
(*                                                                         *)
(* Python strings that the code takes apart (paths, tags, scope strings)   *)
(* are sequences of one-character strings.  JSON values of the claims are  *)
(* tagged records.  A Python call either returns a value or raises.        *)
(***************************************************************************)
EXTENDS Integers, Sequences, FiniteSets, TLC

VARIABLES
    verifier,   \* AuthorizationMiddleware.verifier, set once by __init__
    request,    \* the request task being handled: position and locals
    probe,      \* a direct call of verifier.verify: inputs and result
    tasks,      \* request tasks in flight at once on the event loop
    session     \* the finished tools/call requests of one session, in order

vars == <<verifier, request, probe, tasks, session>>

-----------------------------------------------------------------------------
(* Bounds of the model.                                                    *)

\* longest tool list the downstream continuation returns
MaxTools == 3
\* longest list stored at a claims path
MaxList == 2
\* how often verify is called on the same inputs
MaxCalls == 2
\* number of request tasks in flight at once
NumTasks == 2
\* number of finished requests a session keeps on record
MaxSession == 2

-----------------------------------------------------------------------------
(* Python values.                                                          *)

Str(s)  == [t |-> "str", s |-> s]
List(l) == [t |-> "list", l |-> l]
Dict(d) == [t |-> "dict", d |-> d]
Num     == [t |-> "int"]

\* the outcome of a call: a returned value, or a raised exception
Ret(v)        == [ok |-> TRUE, val |-> v]
Raise(ty, m)  == [ok |-> FALSE, exc |-> ty, msg |-> m]

\* dict and list elements are unhashable: set() of a list holding one raises
Hashable(v) == v.t \in {"str", "int"}

\* str.split(sep) for a one-character separator
RECURSIVE SplitAcc(_, _, _)
SplitAcc(s, sep, cur) ==
    IF s = <<>> THEN <<cur>>
    ELSE IF Head(s) = sep THEN <<cur>> \o SplitAcc(Tail(s), sep, <<>>)
    ELSE SplitAcc(Tail(s), sep, Append(cur, Head(s)))

Split(s, sep) == SplitAcc(s, sep, <<>>)

\* str.split() without argument: runs of whitespace separate, no empty tokens
RECURSIVE SplitWsAcc(_, _)
SplitWsAcc(s, cur) ==
    IF s = <<>> THEN (IF cur = <<>> THEN <<>> ELSE <<cur>>)
    ELSE IF Head(s) = " "
         THEN (IF cur = <<>> THEN <<>> ELSE <<cur>>) \o SplitWsAcc(Tail(s), <<>>)
         ELSE SplitWsAcc(Tail(s), Append(cur, Head(s)))

SplitWs(s) == SplitWsAcc(s, <<>>)

\* str.startswith(prefix)
StartsWith(s, prefix) ==
    /\ Len(s) >= Len(prefix)
    /\ SubSeq(s, 1, Len(prefix)) = prefix

\* s[n:]
DropPrefix(s, n) == SubSeq(s, n + 1, Len(s))

\* set(list): the set of the elements, TypeError on an unhashable element
SetOfList(l) ==
    IF \A i \in 1..Len(l) : Hashable(l[i])
    THEN Ret({l[i] : i \in 1..Len(l)})
    ELSE Raise("TypeError", "unhashable type")

\* dict.get(key, default)
DictGet(d, key, default) == IF key \in DOMAIN d THEN d[key] ELSE default

-----------------------------------------------------------------------------
(* String literals of the source.                                          *)

role_prefix  == <<"r", "o", "l", "e", ":">>
role_all     == <<"r", "o", "l", "e", ":", "a", "l", "l">>
scope_prefix == <<"s", "c", "o", "p", "e", ":">>

realm_access == <<"r", "e", "a", "l", "m", "_", "a", "c", "c", "e", "s", "s">>
roles        == <<"r", "o", "l", "e", "s">>
scope        == <<"s", "c", "o", "p", "e">>

\* Field defaults of the two verifiers
RoleDefaultPath  == realm_access \o <<".">> \o roles
ScopeDefaultPath == scope
RoleDefaultAllow  == FALSE
ScopeDefaultAllow == FALSE

RoleBasedVerifier(path, allow) ==
    [kind |-> "role", claims_path |-> path, allow_no_role_tags |-> allow]
ScopeBasedVerifier(path, allow) ==
    [kind |-> "scope", claims_path |-> path, allow_no_scope_tags |-> allow]
\* a ToolVerifier subclass written by the deployer
CustomVerifier == [kind |-> "custom"]
\* the verifier the server installs: RoleBasedVerifier()
DeployedVerifier == RoleBasedVerifier(RoleDefaultPath, RoleDefaultAllow)

-----------------------------------------------------------------------------
(* RoleBasedVerifier.                                                      *)

\* the for loop of _extract_roles / _extract_scopes over the path's parts:
\* the node reached, or "stop" where the loop returns set() early
RECURSIVE WalkPath(_, _, _)
WalkPath(current, parts, default) ==
    IF parts = <<>> THEN [stop |-> FALSE, node |-> current]
    ELSE IF current.t = "dict"
         THEN WalkPath(DictGet(current.d, Head(parts), default), Tail(parts), default)
         ELSE [stop |-> TRUE, node |-> current]

_extract_roles(self, claims) ==
    LET w == WalkPath(claims, Split(self.claims_path, "."), List(<<>>))
    IN  IF w.stop THEN Ret({})
        ELSE IF w.node.t = "list" THEN SetOfList(w.node.l)
        ELSE Ret({})

RoleVerify(self, claims, tool) ==
    LET user_roles == _extract_roles(self, claims)
        tool_tags  == tool.tags
        role_tags  == {tag \in tool_tags : StartsWith(tag, role_prefix)}
    IN  IF ~user_roles.ok THEN user_roles
        ELSE IF role_all \in tool_tags THEN Ret(TRUE)
        ELSE IF role_tags = {} THEN Ret(self.allow_no_role_tags)
        ELSE Ret(\E tag \in role_tags :
                    Str(DropPrefix(tag, 5)) \in user_roles.val)

-----------------------------------------------------------------------------
(* ScopeBasedVerifier.                                                     *)

_extract_scopes(self, claims) ==
    LET w == WalkPath(claims, Split(self.claims_path, "."), Str(<<>>))
    IN  IF w.stop THEN Ret({})
        ELSE IF w.node.t = "str"
             THEN Ret({Str(SplitWs(w.node.s)[i]) : i \in 1..Len(SplitWs(w.node.s))})
        ELSE IF w.node.t = "list" THEN SetOfList(w.node.l)
        ELSE Ret({})

ScopeVerify(self, claims, tool) ==
    LET user_scopes == _extract_scopes(self, claims)
        tool_tags   == tool.tags
        scope_tags  == {tag \in tool_tags : StartsWith(tag, scope_prefix)}
    IN  IF ~user_scopes.ok THEN user_scopes
        ELSE IF scope_tags = {} THEN Ret(self.allow_no_scope_tags)
        ELSE Ret(\A tag \in scope_tags :
                    Str(DropPrefix(tag, 6)) \in user_scopes.val)

-----------------------------------------------------------------------------
(* ToolVerifier.verify, by dynamic dispatch on the verifier's class.       *)

\* what a custom verify may do: return either boolean, or raise
CustomVerifyOutcomes ==
    {Ret(TRUE), Ret(FALSE),
     Raise("RuntimeError", "policy service unreachable"),
     Raise("ToolError", "rejected by policy")}

\* verify that answers from the first decision the session has on record
\* for the tool, and computes only when there is none
VerifyOutcomes_Cached(self, claims, tool) ==
    LET hits == {k \in 1..Len(session) :
                    session[k].tool = tool.name /\ session[k].verdicts # <<>>}
    IN  IF hits # {}
        THEN {session[CHOOSE k \in hits : \A j \in hits : k <= j].verdicts[1]}
        ELSE IF self.kind = "role" THEN {RoleVerify(self, claims, tool)}
        ELSE IF self.kind = "scope" THEN {ScopeVerify(self, claims, tool)}
        ELSE CustomVerifyOutcomes

VerifyOutcomes(self, claims, tool) ==
    IF self.kind = "role" THEN {RoleVerify(self, claims, tool)}
    ELSE IF self.kind = "scope" THEN {ScopeVerify(self, claims, tool)}
    ELSE CustomVerifyOutcomes

-----------------------------------------------------------------------------
(* Tools, tokens and the collaborators of the middleware.                  *)

admin == <<"a", "d", "m", "i", "n">>
user  == <<"u", "s", "e", "r">>
read  == <<"r", "e", "a", "d">>

Tool(name, enabled, tags) == [name |-> name, enabled |-> enabled, tags |-> tags]

\* the tools the server has registered
Registry ==
    {Tool("t_all", TRUE, {role_all}),
     Tool("t_admin", TRUE, {role_prefix \o admin}),
     Tool("t_plain", TRUE, {}),
     Tool("t_scoped", TRUE, {scope_prefix \o read, role_prefix \o user}),
     Tool("t_off", FALSE, {role_all}),
     Tool("t_off_admin", FALSE, {role_prefix \o admin})}

ToolNames == {tl.name : tl \in Registry} \cup {"t_unknown"}

\* get_access_token(): None, or a token object with a claims mapping
NoToken         == [present |-> FALSE]
AccessToken(c)  == [present |-> TRUE, claims |-> c]

RolesClaim(l) == Dict(realm_access :> Dict(roles :> List(l)))

Tokens ==
    {NoToken,
     AccessToken(RolesClaim(<<Str(admin)>>)),
     AccessToken(RolesClaim(<<Str(user), Str(admin)>>)),
     AccessToken(Dict(scope :> Str(read))),
     AccessToken(RolesClaim(<<List(<<Str(admin)>>)>>))}

\* fastmcp.get_tool(name): the registered tool, NotFoundError for an unknown
\* name, or whatever else the lookup raises
LookupOutcomes(name) ==
    (IF \E tl \in Registry : tl.name = name
     THEN {Ret(CHOOSE tl \in Registry : tl.name = name)}
     ELSE {Raise("NotFoundError", "Unknown tool")})
    \cup {Raise("RuntimeError", "lookup failed"), Raise("ToolError", "lookup failed")}

\* call_next(context) of a tools/call request: the tool's result, or its error
CallNextOutcomes ==
    {Ret("payload_a"), Ret("payload_b"), Raise("NotFoundError", "Unknown tool")}

\* sequences over S of length at most n
RECURSIVE SeqsUpTo(_, _)
SeqsUpTo(S, n) ==
    IF n = 0 THEN {<<>>}
    ELSE LET shorter == SeqsUpTo(S, n - 1)
         IN  shorter \cup {Append(q, x) : q \in shorter, x \in S}

\* call_next(context) of a tools/list request: the tools, or its error
ListNextOutcomes ==
    {Ret(q) : q \in SeqsUpTo(Registry, MaxTools)}
    \cup {Raise("RuntimeError", "listing failed")}

\* except ToolError: exceptions of class ToolError (or a subclass)
IsToolError(o) == ~o.ok /\ o.exc = "ToolError"

DisabledError == Raise("ToolError", "Tool is currently disabled")
DeniedError ==
    Raise("ToolError",
          "Access denied. You do not have permission to execute this tool.")

-----------------------------------------------------------------------------
(* AuthorizationMiddleware.                                                *)

\* _get_claims that gives a caller without token the claims of an admin
_get_claims_AdminWhenAbsent(token) ==
    IF ~token.present THEN RolesClaim(<<Str(admin)>>) ELSE token.claims

_get_claims(token) == IF ~token.present THEN Dict(<<>>) ELSE token.claims

\* self._get_claims() as a call: it returns the claims, unless
\* get_access_token() finds a token object it cannot convert and raises
GetClaimsOutcomes(token) ==
    {Ret(_get_claims(token))}
    \cup (IF token.present
          THEN {Raise("TypeError", "unexpected access token")} ELSE {})

NoTool == Tool("", FALSE, {})
NoOut  == [ok |-> FALSE, exc |-> "", msg |-> ""]

\* a request task that has not started: its locals are unset, and the
\* counters of the calls it has made are zero
Idle ==
    [flow |-> "idle", pc |-> "idle",
     ctx |-> FALSE, name |-> "", token |-> NoToken,
     tool |-> NoTool, claims |-> Dict(<<>>),
     result |-> <<>>, i |-> 1, filtered_tools |-> <<>>,
     lookups |-> 0, claims_reads |-> 0, next_calls |-> 0,
     verdicts |-> <<>>, lookup_out |-> NoOut, next_out |-> NoOut,
     out |-> NoOut]

\* the handler ends: it returns a value or raises to its caller
Finish(req, o) == [req EXCEPT !.pc = "done", !.out = o]

\* --- on_list_tools ---------------------------------------------------------

\* lines 207-208: claims are read, then the continuation is awaited
ListEnter(token, c) ==
    LET req == [Idle EXCEPT !.flow = "list", !.token = token,
                            !.claims_reads = 1]
    IN  IF ~c.ok THEN Finish(req, c)
        ELSE [req EXCEPT !.pc = "awaiting_next", !.claims = c.val,
                         !.next_calls = 1]

\* line 208: the continuation has returned or raised
ListAfterNext(req, o) ==
    IF o.ok
    THEN [req EXCEPT !.pc = "filter", !.result = o.val, !.next_out = o]
    ELSE Finish([req EXCEPT !.next_out = o], o)

\* ListAfterVerify with a tool kept only once
ListAfterVerify_Dedup(req, o) ==
    LET tool == req.result[req.i]
        seen == [req EXCEPT !.verdicts = Append(req.verdicts, o)]
        kept == \E k \in 1..Len(req.filtered_tools) : req.filtered_tools[k] = tool
    IN  IF ~o.ok THEN Finish(seen, o)
        ELSE [seen EXCEPT !.i = req.i + 1,
                          !.filtered_tools =
                              IF o.val /\ ~kept THEN Append(req.filtered_tools, tool)
                              ELSE req.filtered_tools]

\* ListAfterVerify that keeps the tool whatever verify returned
ListAfterVerify_KeepsDenied(req, o) ==
    LET tool == req.result[req.i]
        seen == [req EXCEPT !.verdicts = Append(req.verdicts, o)]
    IN  IF ~o.ok THEN Finish(seen, o)
        ELSE [seen EXCEPT !.i = req.i + 1,
                          !.filtered_tools = Append(req.filtered_tools, tool)]

\* lines 212-214: one iteration of the loop, where verify has answered o
ListAfterVerify(req, o) ==
    LET tool == req.result[req.i]
        seen == [req EXCEPT !.verdicts = Append(req.verdicts, o)]
    IN  IF ~o.ok THEN Finish(seen, o)
        ELSE [seen EXCEPT !.i = req.i + 1,
                          !.filtered_tools =
                              IF o.val THEN Append(req.filtered_tools, tool)
                              ELSE req.filtered_tools]

\* line 216
ListReturn(req) == Finish(req, Ret(req.filtered_tools))

\* --- on_call_tool ----------------------------------------------------------

\* line 250: the continuation is invoked and awaited
CallForward(req) ==
    [req EXCEPT !.pc = "awaiting_next", !.next_calls = req.next_calls + 1]

\* CallEnter without the test of context.fastmcp_context
CallEnter_AlwaysLookup(token, name, ctx) ==
    [Idle EXCEPT !.flow = "call", !.token = token, !.name = name, !.ctx = ctx,
                 !.pc = "lookup", !.lookups = 1]

\* lines 226-230: without a server context the try block is skipped
CallEnter(token, name, ctx) ==
    LET req == [Idle EXCEPT !.flow = "call", !.token = token, !.name = name,
                            !.ctx = ctx]
    IN  IF ctx THEN [req EXCEPT !.pc = "lookup", !.lookups = 1]
        ELSE CallForward(req)

\* CallAfterLookup without the test of tool.enabled
CallAfterLookup_NoEnabledCheck(req, o, c) ==
    LET looked == [req EXCEPT !.lookup_out = o]
        got   == [looked EXCEPT !.tool = o.val,
                                 !.claims_reads = req.claims_reads + 1]
    IN  IF IsToolError(o) THEN Finish(looked, o)
        ELSE IF ~o.ok THEN CallForward(looked)
        ELSE IF IsToolError(c) THEN Finish(got, c)
        ELSE IF ~c.ok THEN CallForward(got)
        ELSE [got EXCEPT !.pc = "verify", !.claims = c.val]

\* lines 228-236 and 243-248: get_tool has answered o, and the claims
\* lookup of line 235, where it is reached, answers c
CallAfterLookup(req, o, c) ==
    LET looked == [req EXCEPT !.lookup_out = o]
        got   == [looked EXCEPT !.tool = o.val,
                                 !.claims_reads = req.claims_reads + 1]
    IN  IF IsToolError(o) THEN Finish(looked, o)
        ELSE IF ~o.ok THEN CallForward(looked)
        ELSE IF ~o.val.enabled
             THEN Finish([looked EXCEPT !.tool = o.val], DisabledError)
        ELSE IF IsToolError(c) THEN Finish(got, c)
        ELSE IF ~c.ok THEN CallForward(got)
        ELSE [got EXCEPT !.pc = "verify", !.claims = c.val]

\* CallAfterVerify where the denial is raised as a plain Exception, which
\* the except clause of line 245 swallows
CallAfterVerify_DenialSwallowed(req, o) ==
    LET seen == [req EXCEPT !.verdicts = Append(req.verdicts, o)]
    IN  IF IsToolError(o) THEN Finish(seen, o)
        ELSE CallForward(seen)

\* CallAfterVerify that lets every exception of verify end the request
CallAfterVerify_Propagates(req, o) ==
    LET seen == [req EXCEPT !.verdicts = Append(req.verdicts, o)]
    IN  IF ~o.ok THEN Finish(seen, o)
        ELSE IF ~o.val THEN Finish(seen, DeniedError)
        ELSE CallForward(seen)

\* lines 236-250: verify has answered o
CallAfterVerify(req, o) ==
    LET seen == [req EXCEPT !.verdicts = Append(req.verdicts, o)]
    IN  IF IsToolError(o) THEN Finish(seen, o)
        ELSE IF ~o.ok THEN CallForward(seen)
        ELSE IF ~o.val THEN Finish(seen, DeniedError)
        ELSE CallForward(seen)

\* CallAfterNext that reports a downstream error as an access denial
CallAfterNext_MasksError(req, o) ==
    Finish([req EXCEPT !.next_out = o], IF o.ok THEN o ELSE DeniedError)

\* line 250: whatever the continuation returns or raises is the handler's
CallAfterNext(req, o) == Finish([req EXCEPT !.next_out = o], o)

-----------------------------------------------------------------------------
(* The request task.                                                       *)

VerifierConfigs ==
    {DeployedVerifier, RoleBasedVerifier(RoleDefaultPath, TRUE)}
    \cup {ScopeBasedVerifier(ScopeDefaultPath, a) : a \in BOOLEAN}
    \cup {CustomVerifier}

NoProbe == [claims |-> Dict(<<>>), tool |-> NoTool, results |-> <<>>]

Tasks == 1..NumTasks

Init ==
    /\ verifier \in VerifierConfigs
    /\ request = Idle
    /\ probe = NoProbe
    /\ tasks = [r \in Tasks |-> Idle]
    /\ session = <<>>

StartList ==
    /\ request.pc = "idle"
    /\ \E token \in Tokens :
          \E c \in GetClaimsOutcomes(token) : request' = ListEnter(token, c)
    /\ UNCHANGED <<verifier, probe, tasks, session>>

ListNextDone ==
    /\ request.flow = "list" /\ request.pc = "awaiting_next"
    /\ \E o \in ListNextOutcomes : request' = ListAfterNext(request, o)
    /\ UNCHANGED <<verifier, probe, tasks, session>>

ListVerify ==
    /\ request.flow = "list" /\ request.pc = "filter"
    /\ request.i <= Len(request.result)
    /\ \E o \in VerifyOutcomes(verifier, request.claims, request.result[request.i]) :
          request' = ListAfterVerify(request, o)
    /\ UNCHANGED <<verifier, probe, tasks, session>>

ListDone ==
    /\ request.flow = "list" /\ request.pc = "filter"
    /\ request.i > Len(request.result)
    /\ request' = ListReturn(request)
    /\ UNCHANGED <<verifier, probe, tasks, session>>

StartCall ==
    /\ request.pc = "idle"
    /\ \E token \in Tokens, name \in ToolNames, ctx \in BOOLEAN :
          request' = CallEnter(token, name, ctx)
    /\ UNCHANGED <<verifier, probe, tasks, session>>

CallLookupDone ==
    /\ request.flow = "call" /\ request.pc = "lookup"
    /\ \E o \in LookupOutcomes(request.name) :
          \E c \in GetClaimsOutcomes(request.token) :
             request' = CallAfterLookup(request, o, c)
    /\ UNCHANGED <<verifier, probe, tasks, session>>

CallVerifyDone ==
    /\ request.flow = "call" /\ request.pc = "verify"
    /\ \E o \in VerifyOutcomes(verifier, request.claims, request.tool) :
          request' = CallAfterVerify(request, o)
    /\ UNCHANGED <<verifier, probe, tasks, session>>

CallNextDone ==
    /\ request.flow = "call" /\ request.pc = "awaiting_next"
    /\ \E o \in CallNextOutcomes : request' = CallAfterNext(request, o)
    /\ UNCHANGED <<verifier, probe, tasks, session>>

\* the task is over; the next request takes its place
Retire ==
    /\ request.pc = "done"
    /\ request' = Idle
    /\ UNCHANGED <<verifier, probe, tasks, session>>

Next ==
    \/ StartList
    \/ ListNextDone
    \/ ListVerify
    \/ ListDone
    \/ StartCall
    \/ CallLookupDone
    \/ CallVerifyDone
    \/ CallNextDone
    \/ Retire

Spec == Init /\ [][Next]_vars

-----------------------------------------------------------------------------
(* verify called directly, on inputs drawn from bounded sets.              *)

write       == <<"w", "r", "i", "t", "e">>
roles_admin == roles \o <<":">> \o admin

\* tags a tool may carry: role tags, scope tags, and tags of neither
\* namespace ("roles:admin" does not start with "role:")
TagUniverse ==
    {role_all, role_prefix \o admin, role_prefix \o user,
     scope_prefix \o read, scope_prefix \o write, roles_admin}

ProbeTools == {Tool("probed", TRUE, tags) : tags \in SUBSET TagUniverse}

\* elements of a roles list: strings, a number, and an unhashable list
ListElems == {Str(admin), Str(user), Num, List(<<Str(admin)>>)}

ProbeClaims ==
    {Dict(<<>>)}
    \cup {RolesClaim(l) : l \in SeqsUpTo(ListElems, MaxList)}
    \cup {Dict(roles :> List(l)) : l \in SeqsUpTo({Str(admin)}, 1)}
    \cup {Dict(realm_access :> v) :
            v \in {Str(admin), Num, List(<<Str(admin)>>), Dict(<<>>),
                   Dict(roles :> Str(admin)), Dict(roles :> Num),
                   Dict(roles :> Dict(admin :> Str(admin)))}}
    \cup {Dict(scope :> v) :
            v \in {Str(<<>>), Str(read), Str(read \o <<" ">> \o write),
                   Str(<<" ">> \o write \o <<" ", " ">> \o read),
                   List(<<Str(read)>>), List(<<Str(read), Str(write)>>),
                   List(<<Dict(<<>>)>>), Num, Dict(<<>>)}}

ProbeConfigs ==
    {RoleBasedVerifier(pth, a) : pth \in {RoleDefaultPath, roles}, a \in BOOLEAN}
    \cup {ScopeBasedVerifier(pth, a) :
            pth \in {ScopeDefaultPath, RoleDefaultPath}, a \in BOOLEAN}

InitVerify ==
    /\ verifier \in ProbeConfigs
    /\ request = Idle
    /\ probe \in {[claims |-> c, tool |-> tl, results |-> <<>>] :
                     c \in ProbeClaims, tl \in ProbeTools}
    /\ tasks = [r \in Tasks |-> Idle]
    /\ session = <<>>

\* await verifier.verify(claims, tool)
ProbeVerify ==
    /\ Len(probe.results) < MaxCalls
    /\ \E o \in VerifyOutcomes(verifier, probe.claims, probe.tool) :
          probe' = [probe EXCEPT !.results = Append(probe.results, o)]
    /\ UNCHANGED <<verifier, request, tasks, session>>

NextVerify == ProbeVerify

SpecVerify == InitVerify /\ [][NextVerify]_vars

-----------------------------------------------------------------------------
(* Properties of on_call_tool and on_list_tools, checked under Spec.       *)

\* the request is a tools/call whose lookup returned an enabled tool
ResolvedEnabled ==
    /\ request.flow = "call" /\ request.ctx
    /\ request.lookup_out.ok /\ request.lookup_out.val.enabled

\* C1: with a server context, a resolved and enabled tool and verify
\* returning false, the request fails with the access-denied ToolError and
\* the continuation is never invoked.
C1_DeniedNeverForwarded ==
    (ResolvedEnabled /\ request.verdicts = <<Ret(FALSE)>>)
        => /\ request.pc = "done"
           /\ request.out = DeniedError
           /\ request.next_calls = 0

C1_Witness ==
    /\ ResolvedEnabled /\ request.verdicts = <<Ret(FALSE)>>
    /\ verifier.kind = "role" /\ request.name = "t_admin"
    /\ ~request.token.present
    /\ request.pc = "done"

\* C2: when the tool resolves, is enabled and verify returns true, the
\* continuation is invoked (once), and what it returns or raises is what the
\* handler returns or raises.
C2_AllowedForwardsUnchanged ==
    (ResolvedEnabled /\ request.verdicts = <<Ret(TRUE)>>)
        => /\ request.next_calls = 1
           /\ request.pc \in {"awaiting_next", "done"}
           /\ request.pc = "done" => request.out = request.next_out

C2_Witness ==
    /\ ResolvedEnabled /\ request.verdicts = <<Ret(TRUE)>>
    /\ verifier.kind = "role" /\ request.name = "t_admin"
    /\ request.pc = "done" /\ request.out = Ret("payload_b")

\* the tools of q whose verdict in v (same position) is "returned true"
RECURSIVE KeptTools(_, _)
KeptTools(q, v) ==
    IF q = <<>> \/ v = <<>> THEN <<>>
    ELSE (IF v[1] = Ret(TRUE) THEN <<q[1]>> ELSE <<>>) \o KeptTools(Tail(q), Tail(v))

\* C3: the list that on_list_tools returns is exactly the subsequence of the
\* downstream list at the positions where verify (called with the request's
\* claims and that tool) returned true: order and duplicates kept, nothing
\* added, no longer than the input.
C3_ListIsFilteredSubsequence ==
    (request.flow = "list" /\ request.pc = "done" /\ request.out.ok)
        => /\ Len(request.verdicts) = Len(request.result)
           /\ \A k \in 1..Len(request.result) :
                 request.verdicts[k] \in
                     VerifyOutcomes(verifier, _get_claims(request.token),
                                    request.result[k])
           /\ request.out.val = KeptTools(request.result, request.verdicts)
           /\ Len(request.out.val) <= Len(request.result)

C3_Witness ==
    /\ request.flow = "list" /\ request.pc = "done" /\ request.out.ok
    /\ verifier.kind = "role"
    /\ Len(request.result) = 2 /\ request.result[1] = request.result[2]
    /\ request.out.val = request.result

\* C4 as claimed: a listing whose continuation returned never ends in an
\* error; a tool whose verify fails, be it by raising, is left out.
C4_ListNeverRaises ==
    (request.flow = "list" /\ request.pc = "done" /\ request.next_out.ok)
        => /\ request.out.ok
           /\ request.out.val = KeptTools(request.result, request.verdicts)

\* C5 as claimed: a lookup that fails, with whatever exception, makes the
\* handler call the continuation without calling verify and without raising
\* an error of its own.
C5_LookupFailureForwards ==
    (request.flow = "call" /\ request.ctx /\ request.lookups = 1
        /\ request.pc # "lookup" /\ ~request.lookup_out.ok)
        => /\ request.next_calls = 1
           /\ request.verdicts = <<>>
           /\ request.pc = "done" => request.out = request.next_out

\* C6: a resolved tool that is disabled fails the request with the
\* tool-disabled ToolError before claims are read or verify is called, and
\* the continuation is not invoked.
C6_DisabledBeforePermission ==
    (request.flow = "call" /\ request.ctx
        /\ request.lookup_out.ok /\ ~request.lookup_out.val.enabled)
        => /\ request.pc = "done"
           /\ request.out = DisabledError
           /\ request.claims_reads = 0
           /\ request.verdicts = <<>>
           /\ request.next_calls = 0

C6_Witness ==
    /\ request.flow = "call" /\ request.ctx /\ request.pc = "done"
    /\ request.lookup_out.ok /\ request.lookup_out.val.name = "t_off"
    /\ role_all \in request.lookup_out.val.tags
    /\ request.out = DisabledError

\* C7: without a server context there is no lookup, no claims read and no
\* verify; the continuation is invoked and decides the outcome.
C7_NoContextForwards ==
    (request.flow = "call" /\ ~request.ctx)
        => /\ request.lookups = 0
           /\ request.claims_reads = 0
           /\ request.verdicts = <<>>
           /\ request.next_calls = 1
           /\ request.pc \in {"awaiting_next", "done"}
           /\ request.pc = "done" => request.out = request.next_out

C7_Witness ==
    /\ request.flow = "call" /\ ~request.ctx /\ request.pc = "done"
    /\ request.name = "t_admin" /\ ~request.token.present
    /\ request.out = Ret("payload_a")

-----------------------------------------------------------------------------
(* Properties of RoleBasedVerifier.verify, checked under SpecVerify.       *)

RoleTagsOf(tool) == {tag \in tool.tags : StartsWith(tag, role_prefix)}

\* C8 as claimed: a tool tagged role:all is allowed for every claims value.
C8_RoleAllAlwaysAllowed ==
    (verifier.kind = "role" /\ role_all \in probe.tool.tags)
        => \A k \in 1..Len(probe.results) : probe.results[k] = Ret(TRUE)

\* C9 as claimed: with a role tag and no role:all, verify returns true when
\* an extracted role is a declared role, and returns false otherwise.
C9_RoleIntersection ==
    (verifier.kind = "role" /\ role_all \notin probe.tool.tags
        /\ RoleTagsOf(probe.tool) # {})
        => \A k \in 1..Len(probe.results) :
              LET extracted == _extract_roles(verifier, probe.claims)
                  declared  == {Str(DropPrefix(tag, Len(role_prefix))) :
                                   tag \in RoleTagsOf(probe.tool)}
              IN  /\ probe.results[k].ok
                  /\ probe.results[k].val =
                        (extracted.ok /\ extracted.val \cap declared # {})

\* C10 as claimed: with no role tag, verify returns the configured flag.
C10_NoRoleTagsReturnsFlag ==
    (verifier.kind = "role" /\ RoleTagsOf(probe.tool) = {})
        => \A k \in 1..Len(probe.results) :
              probe.results[k] = Ret(verifier.allow_no_role_tags)

-----------------------------------------------------------------------------
(* Properties of ScopeBasedVerifier.verify, checked under SpecVerify.      *)

ScopeTagsOf(tool) == {tag \in tool.tags : StartsWith(tag, scope_prefix)}

\* C11 as claimed: with a scope tag, verify returns true when every declared
\* scope is an extracted scope and returns false otherwise; with no scope
\* tag it returns the configured flag.
C11_ScopeAllRequired ==
    verifier.kind = "scope"
        => \A k \in 1..Len(probe.results) :
              LET extracted == _extract_scopes(verifier, probe.claims)
                  declared  == {Str(DropPrefix(tag, Len(scope_prefix))) :
                                   tag \in ScopeTagsOf(probe.tool)}
              IN  /\ probe.results[k].ok
                  /\ probe.results[k].val =
                        IF declared = {} THEN verifier.allow_no_scope_tags
                        ELSE extracted.ok /\ declared \subseteq extracted.val

-----------------------------------------------------------------------------
(* Listing without an access token, checked under Spec.                    *)

\* the tools of q that carry the tag role:all
RECURSIVE RoleAllTools(_)
RoleAllTools(q) ==
    IF q = <<>> THEN <<>>
    ELSE (IF role_all \in q[1].tags THEN <<q[1]>> ELSE <<>>) \o RoleAllTools(Tail(q))

\* C12: a tools/list request without access token is handled with empty
\* claims and is not rejected; under RoleBasedVerifier with
\* allow_no_role_tags = False it returns exactly the downstream tools that are
\* tagged role:all.
C12_NoTokenSeesRoleAll ==
    (request.flow = "list" /\ ~request.token.present
        /\ verifier = RoleBasedVerifier(RoleDefaultPath, FALSE))
        => /\ request.claims = Dict(<<>>)
           /\ request.next_calls = 1
           /\ (request.pc = "done" /\ request.next_out.ok)
                 => request.out = Ret(RoleAllTools(request.result))

C12_Witness ==
    /\ request.flow = "list" /\ ~request.token.present
    /\ verifier = RoleBasedVerifier(RoleDefaultPath, FALSE)
    /\ request.pc = "done"
    /\ Len(request.result) = 3
    /\ request.result[1].name = "t_all"
    /\ request.result[2].name = "t_admin"
    /\ request.result[3].name = "t_plain"
    /\ request.out = Ret(<<request.result[1]>>)


(***************************************************************************)
(* Several request tasks on one event loop.  Each task runs one handler;   *)
(* the tasks interleave at the awaits on call_next, get_tool and verify.   *)
(* The middleware object holds the verifier only; the access token lives   *)
(* in the context of the task that reads it.                               *)
(***************************************************************************)
ConcTokens == {NoToken, AccessToken(RolesClaim(<<Str(admin)>>))}

ConcNames == {"t_admin", "t_unknown"}

ToolNamed(name) == CHOOSE tl \in Registry : tl.name = name

ConcListOutcomes ==
    {Ret(<<ToolNamed("t_all"), ToolNamed("t_admin")>>),
     Raise("RuntimeError", "listing failed")}

ConcConfigs == {DeployedVerifier, CustomVerifier}

\* get_access_token() that reads one slot shared by every task
CurrentToken_Shared(r) == tasks[1].token

\* get_access_token() called in task r: the token of that task's own context
CurrentToken(r) == tasks[r].token

InitConc ==
    /\ verifier \in ConcConfigs
    /\ request = Idle
    /\ probe = NoProbe
    /\ tasks = [r \in Tasks |-> Idle]
    /\ session = <<>>

TaskStartList(r) ==
    /\ tasks[r].pc = "idle"
    /\ \E token \in ConcTokens :
          \E c \in GetClaimsOutcomes(token) :
             tasks' = [tasks EXCEPT ![r] = ListEnter(token, c)]
    /\ UNCHANGED <<verifier, request, probe, session>>

TaskListNextDone(r) ==
    /\ tasks[r].flow = "list" /\ tasks[r].pc = "awaiting_next"
    /\ \E o \in ConcListOutcomes :
          tasks' = [tasks EXCEPT ![r] = ListAfterNext(tasks[r], o)]
    /\ UNCHANGED <<verifier, request, probe, session>>

TaskListVerify(r) ==
    /\ tasks[r].flow = "list" /\ tasks[r].pc = "filter"
    /\ tasks[r].i <= Len(tasks[r].result)
    /\ \E o \in VerifyOutcomes(verifier, tasks[r].claims,
                               tasks[r].result[tasks[r].i]) :
          tasks' = [tasks EXCEPT ![r] = ListAfterVerify(tasks[r], o)]
    /\ UNCHANGED <<verifier, request, probe, session>>

TaskListDone(r) ==
    /\ tasks[r].flow = "list" /\ tasks[r].pc = "filter"
    /\ tasks[r].i > Len(tasks[r].result)
    /\ tasks' = [tasks EXCEPT ![r] = ListReturn(tasks[r])]
    /\ UNCHANGED <<verifier, request, probe, session>>

TaskStartCall(r) ==
    /\ tasks[r].pc = "idle"
    /\ \E token \in ConcTokens, name \in ConcNames :
          tasks' = [tasks EXCEPT ![r] = CallEnter(token, name, TRUE)]
    /\ UNCHANGED <<verifier, request, probe, session>>

TaskCallLookupDone(r) ==
    /\ tasks[r].flow = "call" /\ tasks[r].pc = "lookup"
    /\ \E o \in LookupOutcomes(tasks[r].name) :
          \E c \in GetClaimsOutcomes(CurrentToken(r)) :
             tasks' = [tasks EXCEPT ![r] = CallAfterLookup(tasks[r], o, c)]
    /\ UNCHANGED <<verifier, request, probe, session>>

TaskCallVerifyDone(r) ==
    /\ tasks[r].flow = "call" /\ tasks[r].pc = "verify"
    /\ \E o \in VerifyOutcomes(verifier, tasks[r].claims, tasks[r].tool) :
          tasks' = [tasks EXCEPT ![r] = CallAfterVerify(tasks[r], o)]
    /\ UNCHANGED <<verifier, request, probe, session>>

TaskCallNextDone(r) ==
    /\ tasks[r].flow = "call" /\ tasks[r].pc = "awaiting_next"
    /\ \E o \in CallNextOutcomes :
          tasks' = [tasks EXCEPT ![r] = CallAfterNext(tasks[r], o)]
    /\ UNCHANGED <<verifier, request, probe, session>>

\* the task is over; its slot takes the next request
TaskRetire(r) ==
    /\ tasks[r].pc = "done"
    /\ tasks' = [tasks EXCEPT ![r] = Idle]
    /\ UNCHANGED <<verifier, request, probe, session>>

NextConc ==
    \E r \in Tasks :
        \/ TaskStartList(r)
        \/ TaskListNextDone(r)
        \/ TaskListVerify(r)
        \/ TaskListDone(r)
        \/ TaskStartCall(r)
        \/ TaskCallLookupDone(r)
        \/ TaskCallVerifyDone(r)
        \/ TaskCallNextDone(r)
        \/ TaskRetire(r)

SpecConc == InitConc /\ [][NextConc]_vars

\* what a finished request returns when it runs alone: a function of its own
\* token, of what its own collaborators answered and of the verdicts verify
\* gave on its own claims
SoloListOut(t) ==
    IF t.next_calls = 0
        THEN CHOOSE c \in GetClaimsOutcomes(t.token) : ~c.ok
    ELSE IF ~t.next_out.ok THEN t.next_out
    ELSE IF \E k \in 1..Len(t.verdicts) : ~t.verdicts[k].ok
        THEN t.verdicts[Len(t.verdicts)]
    ELSE Ret(KeptTools(t.result, t.verdicts))

SoloCallOut(t) ==
    IF ~t.ctx THEN t.next_out
    ELSE IF IsToolError(t.lookup_out) THEN t.lookup_out
    ELSE IF ~t.lookup_out.ok THEN t.next_out
    ELSE IF ~t.lookup_out.val.enabled THEN DisabledError
    ELSE IF t.verdicts = <<>> THEN t.next_out
    ELSE IF IsToolError(t.verdicts[1]) THEN t.verdicts[1]
    ELSE IF ~t.verdicts[1].ok THEN t.next_out
    ELSE IF ~t.verdicts[1].val THEN DeniedError
    ELSE t.next_out

TaskIndependent(t) ==
    LET own == _get_claims(t.token)
    IN  /\ t.claims \in {Dict(<<>>), own}
        /\ (t.flow = "list" /\ t.next_calls > 0) => t.claims = own
        /\ t.verdicts # <<>> => t.claims = own
        /\ \A k \in 1..Len(t.verdicts) :
              t.verdicts[k] \in
                 VerifyOutcomes(verifier, own,
                                IF t.flow = "list" THEN t.result[k] ELSE t.tool)
        /\ (t.flow = "call" /\ t.verdicts # <<>>) => t.tool = t.lookup_out.val
        /\ t.pc = "done" =>
              t.out = IF t.flow = "list" THEN SoloListOut(t) ELSE SoloCallOut(t)

\* C13: in every interleaving of list and call requests, each request's
\* claims are those of its own token, each verdict is verify's answer on
\* its own claims, its outcome is the one it has when run alone, and no
\* step of any request changes the middleware's verifier.
C13_RequestsIndependent ==
    /\ [](\A r \in Tasks : TaskIndependent(tasks[r]))
    /\ [][verifier' = verifier]_vars

\* two requests in the middle of their handlers at once, one of an admin
\* about to be verified, one without token half way through its listing
C13_Witness ==
    /\ verifier = DeployedVerifier
    /\ tasks[1].flow = "call" /\ tasks[1].pc = "verify"
    /\ tasks[1].name = "t_admin"
    /\ tasks[1].claims = RolesClaim(<<Str(admin)>>)
    /\ tasks[2].flow = "list" /\ tasks[2].pc = "filter"
    /\ ~tasks[2].token.present
    /\ tasks[2].i = 2 /\ tasks[2].verdicts = <<Ret(TRUE)>>

(***************************************************************************)
(* One session: requests on the same tool, one after the other, each with  *)
(* the token the caller holds at that time.  session keeps, for every      *)
(* finished request, what it was decided on and how.                       *)
(***************************************************************************)
SessionTool == "t_scoped"

SessionTokens ==
    {NoToken,
     AccessToken(RolesClaim(<<Str(user)>>)),
     AccessToken(Dict(scope :> Str(read)))}

SessionListOutcomes ==
    {Ret(<<ToolNamed(SessionTool)>>), Raise("RuntimeError", "listing failed")}

SessionConfigs == {DeployedVerifier, ScopeBasedVerifier(ScopeDefaultPath, FALSE)}

InitSession ==
    /\ verifier \in SessionConfigs
    /\ request = Idle
    /\ probe = NoProbe
    /\ tasks = [r \in Tasks |-> Idle]
    /\ session = <<>>

SessionStartList ==
    /\ request.pc = "idle"
    /\ \E token \in SessionTokens :
          \E c \in GetClaimsOutcomes(token) : request' = ListEnter(token, c)
    /\ UNCHANGED <<verifier, probe, tasks, session>>

SessionListNextDone ==
    /\ request.flow = "list" /\ request.pc = "awaiting_next"
    /\ \E o \in SessionListOutcomes : request' = ListAfterNext(request, o)
    /\ UNCHANGED <<verifier, probe, tasks, session>>

SessionStartCall ==
    /\ request.pc = "idle"
    /\ \E token \in SessionTokens : request' = CallEnter(token, SessionTool, TRUE)
    /\ UNCHANGED <<verifier, probe, tasks, session>>

\* what the session keeps of a finished request
Finished(req) ==
    [flow |-> req.flow, token |-> req.token, tool |-> SessionTool,
     verdicts |-> req.verdicts, forwarded |-> req.next_calls > 0,
     out |-> req.out]

\* the request is over and the session goes on to its next request
SessionRetire ==
    /\ request.pc = "done"
    /\ Len(session) < MaxSession
    /\ session' = Append(session, Finished(request))
    /\ request' = Idle
    /\ UNCHANGED <<verifier, probe, tasks>>

NextSession ==
    \/ SessionStartList
    \/ SessionListNextDone
    \/ ListVerify
    \/ ListDone
    \/ SessionStartCall
    \/ CallLookupDone
    \/ CallVerifyDone
    \/ CallNextDone
    \/ SessionRetire

SpecSession == InitSession /\ [][NextSession]_vars

\* the decision of the built-in verifiers on claims and a tool
Decision(self, claims, tool) ==
    IF self.kind = "role" THEN RoleVerify(self, claims, tool)
    ELSE ScopeVerify(self, claims, tool)

\* C14: every request of a session that reaches verify is decided by the
\* claims of the token current at that request and the tool's tags: its
\* verdict is verify's answer on exactly those, whatever the earlier
\* requests of the session on the same tool were decided; a call is
\* forwarded after a true verdict and denied after a false one.
C14_NoDecisionCached ==
    \A k \in 1..Len(session) :
        LET e == session[k]
            d == Decision(verifier, _get_claims(e.token), ToolNamed(e.tool))
        IN  e.verdicts # <<>>
               => /\ e.verdicts = <<d>>
                  /\ e.flow = "call" /\ d = Ret(TRUE) => e.forwarded
                  /\ e.flow = "call" /\ d = Ret(FALSE)
                        => ~e.forwarded /\ e.out = DeniedError
                  /\ e.flow = "list" /\ d.ok
                        => e.out = Ret(IF d.val THEN <<ToolNamed(e.tool)>>
                                       ELSE <<>>)

\* the caller loses the role between two calls of the same tool: the first
\* is forwarded, the second denied
C14_Witness ==
    /\ verifier = DeployedVerifier
    /\ Len(session) = 2
    /\ session[1].flow = "call" /\ session[2].flow = "call"
    /\ session[1].token = AccessToken(RolesClaim(<<Str(user)>>))
    /\ session[1].verdicts = <<Ret(TRUE)>> /\ session[1].forwarded
    /\ session[1].out.ok
    /\ session[2].token = NoToken
    /\ session[2].verdicts = <<Ret(FALSE)>> /\ ~session[2].forwarded
    /\ session[2].out = DeniedError

-----------------------------------------------------------------------------
(* Repeated verify calls, checked under SpecVerify.                        *)

\* C15 as claimed: for every claims value and tool, every one of the
\* repeated verify calls of a built-in strategy returns a boolean, and all
\* of them return the same one.
C15_VerifyIdempotent ==
    \A k \in 1..Len(probe.results) :
        /\ probe.results[k].ok
        /\ probe.results[k].val \in BOOLEAN
        /\ probe.results[k] = probe.results[1]

(***************************************************************************)
(* The claims extractors alone: _extract_roles and _extract_scopes applied *)
(* to claims of several depths under paths of one, two and three segments. *)
(***************************************************************************)
seg_a == <<"a">>
seg_b == <<"b">>
seg_c == <<"c">>
str_x == <<"x">>
str_y == <<"y">>

ExtractPaths ==
    {seg_a, seg_a \o <<".">> \o seg_b, seg_a \o <<".">> \o seg_b \o <<".">> \o seg_c}

\* values found where a path ends
TerminalValues ==
    {Str(<<>>), Str(str_x), Str(str_x \o <<" ">> \o str_y),
     Str(<<" ">> \o str_y \o <<" ", " ">> \o str_x),
     List(<<>>), List(<<Str(str_x), Str(str_y)>>), List(<<Str(str_x), Str(str_x)>>),
     List(<<List(<<Str(str_x)>>)>>), List(<<Dict(<<>>)>>),
     Num, Dict(<<>>)}

ExtractClaims ==
    {Dict(<<>>)}
    \cup {Dict(seg_a :> v) : v \in TerminalValues}
    \cup {Dict(seg_a :> Dict(seg_b :> v)) : v \in TerminalValues}
    \cup {Dict(seg_a :> Dict(seg_b :> Dict(seg_c :> v))) : v \in TerminalValues}

ExtractConfigs ==
    {RoleBasedVerifier(pth, FALSE) : pth \in ExtractPaths}
    \cup {ScopeBasedVerifier(pth, FALSE) : pth \in ExtractPaths}

\* the extractor of the configured strategy
Extract(self, claims) ==
    IF self.kind = "role" THEN _extract_roles(self, claims)
    ELSE _extract_scopes(self, claims)

InitExtract ==
    /\ verifier \in ExtractConfigs
    /\ request = Idle
    /\ probe \in {[claims |-> c, tool |-> NoTool, results |-> <<>>] :
                     c \in ExtractClaims}
    /\ tasks = [r \in Tasks |-> Idle]
    /\ session = <<>>

\* self._extract_roles(claims) / self._extract_scopes(claims)
ProbeExtract ==
    /\ Len(probe.results) < MaxCalls
    /\ probe' = [probe EXCEPT
                    !.results = Append(probe.results, Extract(verifier, probe.claims))]
    /\ UNCHANGED <<verifier, request, tasks, session>>

NextExtract == ProbeExtract

SpecExtract == InitExtract /\ [][NextExtract]_vars

\* the path resolves: every segment is a key of the mapping reached so far
RECURSIVE Resolves(_, _)
Resolves(node, parts) ==
    IF parts = <<>> THEN TRUE
    ELSE /\ node.t = "dict"
         /\ Head(parts) \in DOMAIN node.d
         /\ Resolves(node.d[Head(parts)], Tail(parts))

\* the value a resolving path ends at
RECURSIVE NodeAt(_, _)
NodeAt(node, parts) ==
    IF parts = <<>> THEN node ELSE NodeAt(node.d[Head(parts)], Tail(parts))

Elements(l) == {l[i] : i \in 1..Len(l)}

\* the whitespace-separated tokens of s: its maximal runs without a blank
WsTokens(s) ==
    {SubSeq(s, i, j) : <<i, j>> \in
        {ij \in (1..Len(s)) \X (1..Len(s)) :
            /\ ij[1] <= ij[2]
            /\ \A n \in ij[1]..ij[2] : s[n] # " "
            /\ (ij[1] = 1 \/ s[ij[1] - 1] = " ")
            /\ (ij[2] = Len(s) \/ s[ij[2] + 1] = " ")}}

\* C16 as claimed: for every claims mapping and path the extractor returns
\* the empty set, without raising, when the path does not resolve, and
\* exactly the set of the elements when the path resolves to a list.
C16_ExtractorWalk ==
    \A k \in 1..Len(probe.results) :
        LET parts == Split(verifier.claims_path, ".")
            got   == probe.results[k]
        IN  /\ ~Resolves(probe.claims, parts) => got = Ret({})
            /\ (Resolves(probe.claims, parts)
                   /\ NodeAt(probe.claims, parts).t = "list")
                  => got = Ret(Elements(NodeAt(probe.claims, parts).l))

\* C17 as claimed: where the path resolves, role mode yields the empty set
\* for every value that is not a list; scope mode yields the whitespace
\* tokens of a string, the elements of a list, and the empty set for a
\* value of any other type.
C17_TerminalByMode ==
    \A k \in 1..Len(probe.results) :
        LET parts == Split(verifier.claims_path, ".")
            got   == probe.results[k]
            node  == NodeAt(probe.claims, parts)
        IN  Resolves(probe.claims, parts)
               => /\ (verifier.kind = "role" /\ node.t # "list") => got = Ret({})
                  /\ (verifier.kind = "scope" /\ node.t = "str")
                        => got = Ret({Str(w) : w \in WsTokens(node.s)})
                  /\ (verifier.kind = "scope" /\ node.t = "list")
                        => got = Ret(Elements(node.l))
                  /\ (verifier.kind = "scope" /\ node.t \notin {"str", "list"})
                        => got = Ret({})

-----------------------------------------------------------------------------
(* The order of a tools/call request and its error handling, under Spec.   *)

\* C18 as claimed: a call with a server context and a resolved tool is
\* verified only after the lookup, reaches the continuation only after
\* verify has returned true, and ends either forwarded (the continuation
\* invoked exactly once) or rejected (never invoked, ending in an error).
C18_StatesInOrder ==
    (request.flow = "call" /\ request.ctx /\ request.lookup_out.ok)
        => /\ request.verdicts # <<>> => request.tool = request.lookup_out.val
           /\ request.next_calls > 0 => request.verdicts = <<Ret(TRUE)>>
           /\ request.next_calls <= 1
           /\ request.pc = "done"
                 => \/ request.next_calls = 1 /\ request.out = request.next_out
                    \/ request.next_calls = 0 /\ ~request.out.ok

\* C19 as claimed: a built-in verify that returns true on the empty claims
\* mapping returns true on every claims mapping, and a decision to allow
\* stays when the extracted role or scope set grows.
C19_EmptyClaimsMostRestrictive ==
    \A k \in 1..Len(probe.results) :
        /\ Decision(verifier, Dict(<<>>), probe.tool) = Ret(TRUE)
              => probe.results[k] = Ret(TRUE)
        /\ \A other \in ProbeClaims :
              LET mine   == Extract(verifier, probe.claims)
                  theirs == Extract(verifier, other)
              IN  (/\ probe.results[k] = Ret(TRUE)
                   /\ mine.ok /\ theirs.ok /\ mine.val \subseteq theirs.val)
                     => Decision(verifier, other, probe.tool) = Ret(TRUE)

\* the exception is raised, and is not a ToolError
OtherError(o) == ~o.ok /\ o.exc # "ToolError"

\* the claims lookup of the request raised: the tool was resolved and is
\* enabled, the claims were asked for, and verify was never reached
ClaimsLookupRaised ==
    /\ ResolvedEnabled /\ request.claims_reads = 1
    /\ request.pc # "verify" /\ request.verdicts = <<>>

\* C20: in a call with a server context, an exception other than ToolError
\* raised by the lookup, by the claims lookup or by verify is swallowed and
\* the continuation is invoked once, its outcome being the request's; the
\* request ends without the continuation only with a ToolError: the
\* tool-disabled error, the access-denied error, or a ToolError raised by
\* the lookup or by verify.
C20_OnlyToolErrorStops ==
    (request.flow = "call" /\ request.ctx /\ request.pc \notin {"lookup", "verify"})
        => /\ (\/ OtherError(request.lookup_out)
               \/ ClaimsLookupRaised
               \/ (request.verdicts # <<>> /\ OtherError(request.verdicts[1])))
                 => /\ request.next_calls = 1
                    /\ request.pc = "done" => request.out = request.next_out
           /\ (request.pc = "done" /\ request.next_calls = 0)
                 => /\ ~request.out.ok /\ request.out.exc = "ToolError"
                    /\ \/ request.out = DisabledError
                       \/ request.out = DeniedError
                       \/ request.out = request.lookup_out
                       \/ request.out = request.verdicts[Len(request.verdicts)]

\* the deployed verifier raises TypeError on the caller's claims, and the
\* call of a tool reserved to admins is forwarded and answered
C20_Witness ==
    /\ verifier = DeployedVerifier
    /\ ResolvedEnabled /\ request.name = "t_admin"
    /\ request.token = AccessToken(RolesClaim(<<List(<<Str(admin)>>)>>))
    /\ request.verdicts = <<Raise("TypeError", "unhashable type")>>
    /\ request.pc = "done" /\ request.next_calls = 1
    /\ request.out = Ret("payload_a")

(***************************************************************************)
(* A listing followed by a call of the same caller: on_list_tools runs to  *)
(* its end and is kept in session; then on_call_tool runs with the same    *)
(* token for one of the registered names.                                  *)
(***************************************************************************)
AgreeConfigs ==
    {RoleBasedVerifier(RoleDefaultPath, a) : a \in BOOLEAN}
    \cup {ScopeBasedVerifier(ScopeDefaultPath, a) : a \in BOOLEAN}

\* what the downstream listing answers: every registered tool, two of them
\* in another order, none, or an error
AgreeListOutcomes ==
    {Ret(<<ToolNamed("t_all"), ToolNamed("t_admin"), ToolNamed("t_plain"),
           ToolNamed("t_scoped"), ToolNamed("t_off"), ToolNamed("t_off_admin")>>),
     Ret(<<ToolNamed("t_admin"), ToolNamed("t_all")>>),
     Ret(<<>>),
     Raise("RuntimeError", "listing failed")}

InitAgree ==
    /\ verifier \in AgreeConfigs
    /\ request = Idle
    /\ probe = NoProbe
    /\ tasks = [r \in Tasks |-> Idle]
    /\ session = <<>>

AgreeStartList ==
    /\ request.pc = "idle" /\ session = <<>>
    /\ \E token \in Tokens :
          \E c \in GetClaimsOutcomes(token) : request' = ListEnter(token, c)
    /\ UNCHANGED <<verifier, probe, tasks, session>>

AgreeListNextDone ==
    /\ request.flow = "list" /\ request.pc = "awaiting_next"
    /\ \E o \in AgreeListOutcomes : request' = ListAfterNext(request, o)
    /\ UNCHANGED <<verifier, probe, tasks, session>>

\* the listing is over and the caller has its answer
AgreeListOver ==
    /\ request.flow = "list" /\ request.pc = "done"
    /\ session' = <<request>>
    /\ request' = Idle
    /\ UNCHANGED <<verifier, probe, tasks>>

\* the same caller, with the same token, calls a tool by name
AgreeStartCall ==
    /\ request.pc = "idle" /\ session # <<>>
    /\ \E name \in ToolNames :
          request' = CallEnter(session[1].token, name, TRUE)
    /\ UNCHANGED <<verifier, probe, tasks, session>>

NextAgree ==
    \/ AgreeStartList
    \/ AgreeListNextDone
    \/ ListVerify
    \/ ListDone
    \/ AgreeListOver
    \/ AgreeStartCall
    \/ CallLookupDone
    \/ CallVerifyDone
    \/ CallNextDone

SpecAgree == InitAgree /\ [][NextAgree]_vars

\* the call that follows a listing which returned: its tool was resolved and
\* is enabled, and it read the claims the listing had
CallAfterListing ==
    /\ session # <<>> /\ session[1].out.ok
    /\ ResolvedEnabled /\ ~ClaimsLookupRaised
    /\ request.pc = "done"

====
